---- MODULE Spec2Model ----
(***************************************************************************)
(* A model of sregistry/main/workers/tasks.py: the worker's HTTP helpers   *)
(* (get, post, call), the bearer-token refresh (update_token), the         *)
(* streaming GET (stream), the atomic download (download) and the worker   *)
(* entry point (download_task).                                            *)
(*                                                                         *)
(* The program is sequential and blocks on I/O.  One action of the model   *)
(* is the code that runs from one I/O event (a response arriving, a chunk  *)
(* arriving, a rename) up to the next one.  The servers and the network    *)
(* are the environment: every status code, challenge, body and chunk       *)
(* size is an input chosen with \E.                                         *)
(*                                                                         *)
(* bot.exit(msg) ends the process (sys.exit): pc = "exit" and err names    *)
(* the message.  An exception nobody catches ends it too: pc = "crash".    *)
(***************************************************************************)
EXTENDS Integers, Sequences, FiniteSets, Bags, TLC

\* ------------------------------------------------------------- bounds
\* Deepest token endpoint modelled: target 0 is the requested URL, target k
\* the token endpoint named by the challenge of target k-1.
MaxDepth == 2
\* Largest streamed body, in chunks of chunk_size; a body comes in that many
\* chunks of any size, and one more for what is left.
MaxChunks == 3
\* Runs of download_task, one after the other on the same file system.
MaxRuns == 2

\* ------------------------------------------------------------- constants
\* chunk_size = 1 << 20
chunk_size == 1048576

\* ------------------------------------------------------------- data
Targets == 0..MaxDepth

\* Status codes the servers answer with.
Statuses == {200, 201, 401, 403, 404, 500, 502}

HeaderKeys == {"Authorization", "Accept"}
NoValue == "<unset>"
Tokens == {"abc123", "t2"}

\* A header argument: None, or a mapping (a dict, mutated in place).
NoneHeaders == [none |-> TRUE, map |-> [k \in HeaderKeys |-> NoValue]]
Mapping(auth, accept) ==
    [none |-> FALSE,
     map |-> [k \in HeaderKeys |-> IF k = "Authorization" THEN auth ELSE accept]]
\* The header arguments a caller passes.
CallerHeaders ==
    {NoneHeaders,
     Mapping(NoValue, NoValue),
     Mapping("Basic old", "application/json")}

\* "Bearer %s" % token
BearerValue(token) == "Bearer " \o token

\* The Www-Authenticate header of a 401 response: absent, present but not
\* matching the Bearer pattern, or a well-formed Bearer challenge.
Challenges == {"absent", "malformed", "bearer"}

\* The body of a 200 response: JSON with the key token, JSON without it,
\* or not JSON at all.
JsonBodies == {"token", "notoken", "garbage"}

\* What call returns: parsed JSON, or the raw response object.
\* response.json() applied whatever the status was.
ParsedWhateverStatus(st) ==
    [kind |-> "json", status |-> st, hasToken |-> FALSE, token |-> NoValue, path |-> <<>>]
NoValueReturned ==
    [kind |-> "none", status |-> 0, hasToken |-> FALSE, token |-> NoValue, path |-> <<>>]
JsonValue(body, t) ==
    [kind |-> "json", status |-> 200, hasToken |-> (body = "token"),
     token |-> IF body = "token" THEN t ELSE NoValue, path |-> <<>>]
RawResponse(st) ==
    [kind |-> "response", status |-> st, hasToken |-> FALSE, token |-> NoValue, path |-> <<>>]
PathValue(p) ==
    [kind |-> "path", status |-> 0, hasToken |-> FALSE, token |-> NoValue, path |-> p]
\* What update_token returns: the mapping it was given, the variable headers.
HeadersReturned ==
    [kind |-> "headers", status |-> 0, hasToken |-> FALSE, token |-> NoValue, path |-> <<>>]

\* ------------------------------------------------------------- files
\* The names a caller gives: an absolute one in a directory that exists, a
\* plain one (in the working directory) and one in the directory sub of the
\* working directory.
Dests == {"/cache/layer1", "layer2", "sub/layer3"}

\* os.path.join(tempfile.gettempdir(), d), where mkstemp puts a file whose
\* prefix is d: an absolute name is kept, any other is placed under the
\* directory for temporary files.
InTempDir(d) ==
    CASE d = "layer2" -> "/tmp/layer2"
      [] d = "sub/layer3" -> "/tmp/sub/layer3"
      [] OTHER -> d

\* The names whose directory does not exist: the directory for temporary
\* files has no directory sub.
NoDirectory == {"/tmp/sub/layer3"}

\* The directory of each name.
dirname(d) ==
    CASE d = "/cache/layer1" -> "/cache"
      [] d = "layer2" -> "."
      [] d = "sub/layer3" -> "sub"
      [] d = "/tmp/layer2" -> "/tmp"
      [] OTHER -> "/tmp/sub"

Names == 0..MaxRuns
\* <<d, 0, 0>> is d itself, <<d, n, 0>> is "d.<n>", <<d, n, m>> is
\* "d.<n>.tmp.<m>" and <<d, 0, m>> is "d.tmp.<m>".  The names tempfile
\* draws are new ones: the run's number stands for them.
Paths == (Dests \cup {InTempDir(d) : d \in Dests}) \X Names \X Names
Path(d, n, m) == <<d, n, m>>

Absent == [exists |-> FALSE, body |-> 0, len |-> 0]
EmptyFile == [exists |-> TRUE, body |-> 0, len |-> 0]
\* A file left by something else before the program ran.
OldFile == [exists |-> TRUE, body |-> 0, len |-> 7]
\* The first k bytes of body b.
Prefix(b, k) == IF k = 0 THEN EmptyFile ELSE [exists |-> TRUE, body |-> b, len |-> k]

\* Body lengths: whole chunks, and one length off the chunk boundary.
BodyLens ==
    {k * chunk_size : k \in 0..MaxChunks}
    \cup {(MaxChunks - 1) * chunk_size + 1}

VARIABLES
    pc,         \* where the program is
    op,         \* the entry point of the running operation
    stack,      \* the call/stream frames, innermost last
    headers,    \* the caller's header argument (the dict object, or None)
    trace,      \* requests sent and update_token invocations, in order
    result,     \* what the operation returned
    err,        \* the message of the fatal bot.exit
    logged,     \* the messages of bot.error
    sbody,      \* stream: the 200 response being read
    chunks,     \* stream: the sizes of the chunks iter_content yielded, a bag
    written,    \* stream: bytes handed to filey.write
    buffered,   \* stream: those of them still in the writer's buffer
    buffer_size, \* stream: the size of that buffer, 0 with no writer open
    progress,   \* stream: the progress counter
    reports,    \* stream: every value handed to bot.show_progress
    files,      \* download: destination, file_name, tmp_file
    fs,         \* the file system
    before,     \* the final path's file when the operation started
    run,        \* operations started so far
    prev,       \* the previous operation: entry point, files, outcome
    challenge,  \* update_token: the text of a Www-Authenticate header
    parsed,     \* update_token: what it made of that text
    workers,    \* concurrent download_task invocations: where each one is
    heap        \* the header mappings (dict objects) those were handed

vars == <<pc, op, stack, headers, trace, result, err, logged, sbody, chunks,
          written, buffered, buffer_size, progress, reports, files, fs, before, run, prev,
          challenge, parsed, workers, heap>>

streamVars == <<sbody, chunks, written, buffered, buffer_size, progress, reports>>
fileVars == <<files, fs, before>>
parseVars == <<challenge, parsed>>
workerVars == <<workers, heap>>
\* What no step of a running operation writes.
runVars == <<op, run, prev, parseVars, workerVars>>

\* ------------------------------------------------------------- frames
\* One invocation of call or stream.  hasHdr: its headers argument is the
\* caller's mapping (TRUE) or None (FALSE).  A tail call (return call(...),
\* return stream(...)) replaces the frame.
Frame(kind, method, target, hasHdr, retry, return_json) ==
    [kind |-> kind, method |-> method, target |-> target, hasHdr |-> hasHdr,
     retry |-> retry, return_json |-> return_json]

Top == stack[Len(stack)]
HeadersOf(f) == IF f.hasHdr THEN headers ELSE NoneHeaders

\* Events of the trace: a request of frame f with the response to it (status,
\* challenge of a 401, body and token of a 200), and an invocation of
\* update_token on the response to frame f.  retry and json are the frame's
\* retry and return_json arguments.
Answer(st, ch, body, t) == [status |-> st, challenge |-> ch, body |-> body, token |-> t]
Status(st) == Answer(st, "absent", "none", NoValue)
Request(f, a) ==
    [ev |-> "request", by |-> f.kind, method |-> f.method, target |-> f.target,
     hdr |-> HeadersOf(f), retry |-> f.retry, json |-> f.return_json,
     status |-> a.status, challenge |-> a.challenge, body |-> a.body,
     token |-> a.token]
HeadRequest(st) ==
    [ev |-> "request", by |-> "download", method |-> "HEAD", target |-> 0,
     hdr |-> NoneHeaders, retry |-> FALSE, json |-> FALSE, status |-> st,
     challenge |-> "absent", body |-> "none", token |-> NoValue]
Invoked(f, a) ==
    [ev |-> "update_token", by |-> f.kind, method |-> f.method, target |-> f.target,
     hdr |-> HeadersOf(f), retry |-> f.retry, json |-> f.return_json,
     status |-> a.status, challenge |-> a.challenge, body |-> a.body,
     token |-> a.token]

NoErr == [msg |-> "none", status |-> 0]
Err(msg, st) == [msg |-> msg, status |-> st]

NoBody == [body |-> 0, len |-> 0, hasLength |-> FALSE]
NoFiles == [dest |-> <<>>, file_name |-> <<>>, tmp_file |-> <<>>, stream_to |-> <<>>]
NoPrev == [op |-> "none", ok |-> FALSE, files |-> NoFiles]

\* No header text looked at.
NotParsed == [matched |-> FALSE, done |-> FALSE, realm |-> <<>>, service |-> <<>>,
              scope |-> <<>>, token_url |-> <<>>]

\* The program before any operation has run.
InitProgram ==
    /\ pc = "idle"
    /\ op = "none"
    /\ stack = <<>>
    /\ headers = NoneHeaders
    /\ trace = <<>>
    /\ result = NoValueReturned
    /\ err = NoErr
    /\ logged = <<>>
    /\ sbody = NoBody
    /\ chunks = EmptyBag
    /\ written = 0
    /\ buffered = 0
    /\ buffer_size = 0
    /\ progress = 0
    /\ reports = <<>>
    /\ files = NoFiles
    /\ fs = [p \in Paths |-> IF p = Path("/cache/layer1", 0, 0) THEN OldFile ELSE Absent]
    /\ before = Absent
    /\ run = 0
    /\ prev = NoPrev

Init ==
    /\ InitProgram
    /\ challenge = <<>>
    /\ parsed = NotParsed
    /\ workers = <<>>
    /\ heap = <<>>

\* ------------------------------------------------------------- entry
\* An operation starts when none has run; download_task is also run again
\* after it returned, on the same destination.
CanStart(entry) ==
    \/ pc = "idle"
    \/ pc = "done" /\ op = "download_task" /\ entry = "download_task" /\ run < MaxRuns

Finished == [op |-> op, ok |-> (pc = "done"), files |-> files]

Begin(entry, h) ==
    /\ CanStart(entry)
    /\ op' = entry
    /\ run' = run + 1
    /\ prev' = Finished
    /\ UNCHANGED <<parseVars, workerVars>>
    /\ headers' = h
    /\ trace' = <<>>
    /\ result' = NoValueReturned
    /\ err' = NoErr
    /\ logged' = <<>>
    /\ sbody' = NoBody
    /\ chunks' = EmptyBag
    /\ written' = 0
    /\ buffered' = 0
    /\ buffer_size' = 0
    /\ progress' = 0
    /\ reports' = <<>>

\* call(url, func, data, headers, return_json, stream, retry)
call(func, h, return_json, retry) ==
    /\ Begin("call", h)
    /\ stack' = <<Frame("call", func, 0, ~h.none, retry, return_json)>>
    /\ pc' = "request"
    /\ UNCHANGED fileVars

\* get(url, headers=None, token=None, data=None, return_json=True)
get(h, return_json) ==
    /\ Begin("get", h)
    /\ stack' = <<Frame("call", "GET", 0, ~h.none, TRUE, return_json)>>
    /\ pc' = "request"
    /\ UNCHANGED fileVars

\* post(url, headers=None, data=None, return_json=True)
post(h, return_json) ==
    /\ Begin("post", h)
    /\ stack' = <<Frame("call", "POST", 0, ~h.none, TRUE, return_json)>>
    /\ pc' = "request"
    /\ UNCHANGED fileVars

\* update_token(response, headers) called by other code than call and stream,
\* on the response to a request that code sent itself: the frame of kind
\* "caller" stands for that request.
caller_request(h) ==
    /\ Begin("update_token", h)
    /\ stack' = <<Frame("caller", "GET", 0, ~h.none, TRUE, FALSE)>>
    /\ pc' = "request"
    /\ UNCHANGED fileVars

\* ------------------------------------------------------------- bot
\* bot.exit(msg): report and end the process.
exit(msg, st) ==
    /\ pc' = "exit"
    /\ err' = Err(msg, st)

\* bot.error(msg): report and go on.
error(msg) == logged' = Append(logged, msg)

\* ------------------------------------------------------------- update_token
\* A retry that keeps its flag: the request could be retried again.
ReissueKeepsRetry(f) == f

\* The tail call of the retry: the same request again, its retry flag spent.
Reissue(f) == [f EXCEPT !.retry = FALSE]

\* get(token_url): headers default to None, retry and return_json to True.
TokenRequest(f) == Frame("call", "GET", f.target + 1, FALSE, TRUE, TRUE)

\* not_asking_auth = "Www-Authenticate" not in response.headers
not_asking_auth(ch) == ch = "absent"

\* The status of the response not looked at.
AuthenticationErrorByHeaderOnly(st, ch) == not_asking_auth(ch)

\* response.status_code != 401 or not_asking_auth
AuthenticationError(st, ch) == st # 401 \/ not_asking_auth(ch)

\* update_token(response, headers), up to the token request.  f is the frame
\* whose request was answered with status st and challenge ch.
update_token(f, st, ch) ==
    /\ trace' = Append(Append(trace, Request(f, Answer(st, ch, "none", NoValue))),
                       Invoked(f, Answer(st, ch, "none", NoValue)))
    /\ IF AuthenticationError(st, ch)
       THEN /\ exit("Authentication error, exiting.", st)
            /\ UNCHANGED stack
       ELSE IF ch # "bearer"
       THEN /\ exit("Unrecognized authentication challenge, exiting.", st)
            /\ UNCHANGED stack
       ELSE /\ f.target < MaxDepth
            /\ stack' = Append(stack, TokenRequest(f))
            /\ UNCHANGED <<pc, err>>
    /\ UNCHANGED <<headers, result, logged>>

\* A new mapping made, holding the token and nothing else.
AuthorizationAlone(h, token) == Mapping(BearerValue(token), NoValue)

\* headers.update({"Authorization": "Bearer %s" % token})
SetAuthorization(h, token) == [h EXCEPT !.map["Authorization"] = BearerValue(token)]

\* response["token"] succeeds on parsed JSON holding the key; on anything
\* else (JSON without the key, a raw response object) it raises.
\* headers.update raises on None.
TokenAccepted(val, f) == val.kind = "json" /\ val.hasToken /\ f.hasHdr

\* update_token from the answer val of the token request on: get(token_url)
\* has returned val, its frame is gone.  Set the header and return the
\* mapping to the caller f (call and stream then issue their request
\* again), or bot.exit inside update_token, the frame of f the innermost.
update_token_return(val) ==
    LET f == stack[Len(stack) - 1] IN
    IF TokenAccepted(val, f)
    THEN /\ headers' = SetAuthorization(headers, val.token)
         /\ IF f.kind = "caller"
            THEN /\ stack' = <<>>
                 /\ pc' = "done"
                 /\ result' = HeadersReturned
                 /\ UNCHANGED err
            ELSE /\ stack' = [SubSeq(stack, 1, Len(stack) - 1)
                                 EXCEPT ![Len(stack) - 1] = Reissue(f)]
                 /\ UNCHANGED <<pc, err, result>>
    ELSE /\ exit("Error getting token.", val.status)
         /\ stack' = SubSeq(stack, 1, Len(stack) - 1)
         /\ UNCHANGED <<headers, result>>

\* update_token invoked on the response (any status, any challenge) to the
\* request of other code.
update_token_called(st, ch) ==
    /\ pc = "request"
    /\ stack # <<>>
    /\ Top.kind = "caller"
    /\ update_token(Top, st, ch)
    /\ UNCHANGED <<streamVars, fileVars, runVars>>

\* ------------------------------------------------------------- call
\* call returns val: to the caller of the operation, or into update_token.
call_return(val) ==
    IF Len(stack) = 1
    THEN /\ pc' = "done"
         /\ result' = val
         /\ stack' = <<>>
         /\ UNCHANGED <<headers, err>>
    ELSE update_token_return(val)

AwaitingCall == pc = "request" /\ stack # <<>> /\ Top.kind = "call"

\* 404 left out of the statuses that end call.
FatalStatusWithout404(st) == st \in {500, 502}

\* The statuses on which call gives up at once.
FatalStatus(st) == st \in {500, 502} \/ st = 404

\* 500, 502, 404: bot.exit.
call_server_error(st) ==
    /\ AwaitingCall
    /\ FatalStatus(st)
    /\ trace' = Append(trace, Request(Top, Status(st)))
    /\ exit("Beep boop!", st)
    /\ UNCHANGED <<stack, headers, result, logged>>
    /\ UNCHANGED <<streamVars, fileVars, runVars>>

\* 401: refresh the token once, or give up.
call_unauthorized(ch) ==
    /\ AwaitingCall
    /\ ~FatalStatus(401)
    /\ IF Top.retry
       THEN update_token(Top, 401, ch)
       ELSE /\ trace' = Append(trace, Request(Top, Answer(401, ch, "none", NoValue)))
            /\ exit("Your credentials are expired!", 401)
            /\ UNCHANGED <<stack, headers, result, logged>>
    /\ UNCHANGED <<streamVars, fileVars, runVars>>

\* 200: parse the body when return_json, and return.
call_ok(body, t) ==
    /\ AwaitingCall
    /\ ~FatalStatus(200)
    /\ (body = "token") = (t # NoValue)
    /\ trace' = Append(trace, Request(Top, Answer(200, "absent", body, t)))
    /\ IF Top.return_json
       THEN IF body = "garbage"
            THEN /\ exit("The server returned a malformed response.", 200)
                 /\ UNCHANGED <<stack, headers, result>>
            ELSE call_return(JsonValue(body, t))
       ELSE call_return(RawResponse(200))
    /\ UNCHANGED logged
    /\ UNCHANGED <<streamVars, fileVars, runVars>>

\* Any other status: the response is returned as it is.
call_other(st) ==
    /\ AwaitingCall
    /\ ~FatalStatus(st)
    /\ st \notin {401, 200}
    /\ trace' = Append(trace, Request(Top, Status(st)))
    /\ call_return(RawResponse(st))
    /\ UNCHANGED logged
    /\ UNCHANGED <<streamVars, fileVars, runVars>>

\* ------------------------------------------------------------- stream
\* stream(url, headers, stream_to=None, retry=True), called directly.
stream(h, d, retry) ==
    /\ Begin("stream", h)
    /\ stack' = <<Frame("stream", "GET", 0, ~h.none, retry, FALSE)>>
    /\ pc' = "request"
    /\ files' = [NoFiles EXCEPT !.stream_to = Path(d, 0, 0)]
    /\ before' = fs[Path(d, 0, 0)]
    /\ UNCHANGED fs

AwaitingStream == pc = "request" /\ stack # <<>> /\ Top.kind = "stream"

\* The retry flag not looked at.
StreamRetriesAlways(f, st) == st = 401

\* response.status_code == 401 and retry is True
StreamRetries(f, st) == st = 401 /\ f.retry

\* 401 and retry is True: refresh the token, then stream again.
stream_unauthorized(ch) ==
    /\ AwaitingStream
    /\ StreamRetries(Top, 401)
    /\ update_token(Top, 401, ch)
    /\ UNCHANGED <<streamVars, fileVars, runVars>>

\* open(stream_to, 'wb'): the file is created, or cut to nothing.
Open(f, p) == [f EXCEPT ![p] = EmptyFile]

\* The sizes the buffer of the writer open(stream_to, 'wb') returns may
\* have: the block size the file system reports for the file, and
\* io.DEFAULT_BUFFER_SIZE where it reports none.
BufferSizes == {4096, 8192}

\* filey.write(chunk) of n bytes when buf bytes wait in a buffer of size
\* bytes.  A chunk that fits in what space is left is kept in the buffer;
\* otherwise the buffer is written out, and the chunk with it when it is
\* larger than the whole buffer.  Flushed: the bytes that go to the file;
\* Pending: the bytes that wait in the buffer afterwards.
Flushed(size, buf, n) ==
    IF n <= size - buf THEN 0
    ELSE IF n > size THEN buf + n ELSE buf
Pending(size, buf, n) ==
    IF n <= size - buf THEN buf + n
    ELSE IF n > size THEN 0 ELSE n

\* n more bytes of body b reach the file p after the k already in it.
Write(f, p, b, k, n) == [f EXCEPT ![p] = Prefix(b, k + n)]

\* The with block is left, by its end or by an exception: the file is
\* closed, and what waits in the buffer goes to the file that holds k bytes.
Close(f, p, b, k, buf) == IF buf = 0 THEN f ELSE Write(f, p, b, k, buf)

\* Chunks counted instead of bytes.
AdvanceByOne(p) == p + 1

\* progress += chunk_size
Advance(p) == p + chunk_size

\* 200: report progress 0 when the length is known, open the file, whose
\* writer has a buffer of size bytes.  The body served to run r is called r:
\* what the url serves may change between runs.
stream_ok(len, hasLength, size) ==
    /\ AwaitingStream
    /\ ~StreamRetries(Top, 200)
    /\ trace' = Append(trace, Request(Top, Answer(200, "absent", "bytes", NoValue)))
    /\ sbody' = [body |-> run, len |-> len, hasLength |-> hasLength]
    /\ progress' = 0
    /\ reports' = IF hasLength THEN <<0>> ELSE <<>>
    /\ fs' = Open(fs, files.stream_to)
    /\ chunks' = EmptyBag
    /\ written' = 0
    /\ buffered' = 0
    /\ buffer_size' = size
    /\ pc' = "chunks"
    /\ UNCHANGED <<stack, headers, result, err, logged, files, before, runVars>>

\* The sizes of the pieces a server cuts a chunked body into: some that fit
\* in the writer's buffer, alone or several together, and some that do not.
PieceLens == {1, 6000, 700000}

\* The sizes of the chunk response.iter_content(chunk_size) may yield next,
\* left bytes of the body to come and count chunks yielded.  chunk_size is
\* what is asked for, not what comes: a chunked transfer yields the pieces
\* as the server cut them, a compressed body chunks longer than chunk_size
\* once decoded (all that is left here).  After MaxChunks chunks what is
\* left comes as one.
ChunkLens(left, count) ==
    {n \in PieceLens \cup {chunk_size, left} :
        /\ 1 <= n
        /\ n <= left
        /\ count < MaxChunks \/ n = left}

\* One turn of the loop over response.iter_content: write the chunk of n
\* bytes, count it, report.
stream_chunk(n) ==
    /\ pc = "chunks"
    /\ n \in ChunkLens(sbody.len - written, BagCardinality(chunks))
    /\ fs' = Write(fs, files.stream_to, sbody.body, written - buffered,
                   Flushed(buffer_size, buffered, n))
    /\ buffered' = Pending(buffer_size, buffered, n)
    /\ UNCHANGED buffer_size
    /\ written' = written + n
    /\ chunks' = chunks (+) SetToBag({n})
    /\ IF sbody.hasLength
       THEN /\ progress' = Advance(progress)
            /\ reports' = Append(reports, progress')
       ELSE UNCHANGED <<progress, reports>>
    /\ UNCHANGED <<pc, stack, headers, trace, result, err, logged, sbody>>
    /\ UNCHANGED <<files, before, runVars>>

\* The body is exhausted: the file is closed and stream returns stream_to.
stream_end ==
    /\ pc = "chunks"
    /\ written = sbody.len
    /\ fs' = Close(fs, files.stream_to, sbody.body, written - buffered, buffered)
    /\ buffered' = 0
    /\ buffer_size' = 0
    /\ stack' = <<>>
    /\ IF op = "stream"
       THEN /\ pc' = "done"
            /\ result' = PathValue(files.stream_to)
       ELSE /\ pc' = "move"
            /\ UNCHANGED result
    /\ UNCHANGED <<headers, trace, err, logged, sbody, chunks, written, progress,
                   reports, files, before, runVars>>

\* Any status but 200, and 401 with the retry spent: bot.exit.
stream_failed(st) ==
    /\ AwaitingStream
    /\ st # 200
    /\ ~StreamRetries(Top, st)
    /\ trace' = Append(trace, Request(Top, Status(st)))
    /\ exit("Problem with stream, response", st)
    /\ UNCHANGED <<stack, headers, result, logged>>
    /\ UNCHANGED <<streamVars, fileVars, runVars>>

\* requests raises (connection refused, reset while reading the body):
\* nothing catches it.  Raised in the loop over the chunks, it leaves the
\* with block, which closes the file.
network_error ==
    /\ pc \in {"head", "request", "chunks"}
    /\ pc' = "crash"
    /\ IF pc = "chunks"
       THEN /\ fs' = Close(fs, files.stream_to, sbody.body, written - buffered, buffered)
            /\ buffered' = 0
            /\ buffer_size' = 0
       ELSE UNCHANGED <<fs, buffered, buffer_size>>
    /\ UNCHANGED <<stack, headers, trace, result, err, logged>>
    /\ UNCHANGED <<sbody, chunks, written, progress, reports, files, before, runVars>>

\* ------------------------------------------------------------- download
\* A copy that leaves the source behind.
MoveLeavesSource(f, src, dst) == [f EXCEPT ![dst] = f[src]]

\* A move that does not replace a file already at dst.
MoveKeepsExisting(f, src, dst) ==
    IF f[dst].exists THEN f ELSE [f EXCEPT ![dst] = f[src], ![src] = Absent]

\* shutil.move(src, dst) where os.rename does it: dst is src at once.
Move(f, src, dst) == [f EXCEPT ![dst] = f[src], ![src] = Absent]

\* shutil.move(src, dst) where os.rename raises, src and dst being on two
\* file systems: the file is copied, then src removed.  The copy opens dst
\* for writing, which empties it, and fills it afterwards.
CopyOpen(f, src, dst) == [f EXCEPT ![dst] = EmptyFile]
CopyData(f, src, dst) == [f EXCEPT ![dst] = f[src]]
Unlink(f, src) == [f EXCEPT ![src] = Absent]

\* Two names that may be on two file systems: names in two directories.
MayBeApart(src, dst) == dirname(src[1]) # dirname(dst[1])

\* tempfile.mkstemp(prefix=file_name + ".tmp."): a new empty file whose name
\* no existing file has.
Mkstemp(f, p) == [f EXCEPT ![p] = EmptyFile]

\* mkstemp raises FileNotFoundError: the directory it is to make the file
\* in does not exist.
MkstempRaises(d) == InTempDir(d) \in NoDirectory

\* stream(url, headers=headers, stream_to=tmp_file): where download has the
\* body written.
StreamTo(file_name, tmp_file) == tmp_file

\* The paths of download(url, file_name): the temporary file is
\* "file_name.tmp.<m>", beside file_name when that is absolute and in the
\* directory for temporary files when it is not.
DownloadFiles(d, m) ==
    [dest |-> <<>>, file_name |-> Path(d, 0, 0),
     tmp_file |-> Path(InTempDir(d), 0, m),
     stream_to |-> StreamTo(Path(d, 0, 0), Path(InTempDir(d), 0, m))]

\* download up to the HEAD request: the temporary file is made, or mkstemp
\* raises and nothing catches it.
download_begin(f, d) ==
    /\ files' = f
    /\ stack' = <<>>
    /\ IF MkstempRaises(d)
       THEN /\ pc' = "crash"
            /\ UNCHANGED fs
       ELSE /\ pc' = "head"
            /\ fs' = Mkstemp(fs, f.tmp_file)

\* download(url, file_name, headers=None, show_progress=True), called directly.
download(h, d) ==
    /\ Begin("download", h)
    /\ before' = fs[Path(d, 0, 0)]
    /\ download_begin(DownloadFiles(d, run'), d)

\* One temporary path for every destination.
TaskFilesOneTmp(d, n, m) ==
    [dest |-> Path(d, 0, 0), file_name |-> Path(d, n, 0),
     tmp_file |-> Path("/cache/layer1", n, m),
     stream_to |-> StreamTo(Path(d, n, 0), Path("/cache/layer1", n, m))]

\* The paths of download_task(url, headers, destination): file_name is
\* "destination.<n>" and download's temporary file "destination.<n>.tmp.<m>",
\* beside file_name or in the directory for temporary files.
TaskFiles(d, n, m) ==
    [dest |-> Path(d, 0, 0), file_name |-> Path(d, n, 0),
     tmp_file |-> Path(InTempDir(d), n, m),
     stream_to |-> StreamTo(Path(d, n, 0), Path(InTempDir(d), n, m))]

\* download_task(url, headers, destination, download_type='layer'), up to the
\* HEAD request of download: file_name is destination plus a candidate name.
download_task(h, d) ==
    /\ Begin("download_task", h)
    /\ pc = "done" => files.dest = Path(d, 0, 0)
    /\ before' = fs[Path(d, 0, 0)]
    /\ download_begin(TaskFiles(d, run', run'), d)

\* 403 accepted too.
HeadAcceptedWith403(st) == st \in {200, 401, 403}

\* The statuses of the HEAD request on which download goes on to stream.
HeadAccepted(st) == st \in {200, 401}

\* download returns file_name: to the caller, or into download_task.
download_return ==
    IF op = "download"
    THEN /\ pc' = "done"
         /\ result' = PathValue(files.file_name)
    ELSE /\ pc' = "taskmove"
         /\ UNCHANGED result

\* HEAD answered 200 or 401: stream(url, headers=headers, stream_to=tmp_file).
head_accepted(st) ==
    /\ pc = "head"
    /\ HeadAccepted(st)
    /\ trace' = Append(trace, HeadRequest(st))
    /\ stack' = <<Frame("stream", "GET", 0, ~headers.none, TRUE, FALSE)>>
    /\ pc' = "request"
    /\ UNCHANGED <<headers, result, err, logged, streamVars, fileVars, runVars>>

\* HEAD answered anything else: bot.error, and download returns file_name.
head_rejected(st) ==
    /\ pc = "head"
    /\ ~HeadAccepted(st)
    /\ trace' = Append(trace, HeadRequest(st))
    /\ error("Invalid url or permissions")
    /\ download_return
    /\ UNCHANGED <<stack, headers, err, streamVars, fileVars, runVars>>

\* stream returned: shutil.move(tmp_file, file_name) renames, return
\* file_name.
download_move ==
    /\ pc = "move"
    /\ fs' = Move(fs, files.tmp_file, files.file_name)
    /\ download_return
    /\ UNCHANGED <<stack, headers, trace, err, logged, streamVars, files, before, runVars>>

\* stream returned and shutil.move(tmp_file, file_name) cannot rename: it
\* opens file_name to copy to.
download_move_apart ==
    /\ pc = "move"
    /\ MayBeApart(files.tmp_file, files.file_name)
    /\ fs' = CopyOpen(fs, files.tmp_file, files.file_name)
    /\ pc' = "copy"
    /\ UNCHANGED <<stack, headers, trace, result, err, logged, streamVars, files,
                   before, runVars>>

\* The copy of shutil.move is made.
download_move_copy ==
    /\ pc = "copy"
    /\ fs' = CopyData(fs, files.tmp_file, files.file_name)
    /\ pc' = "unlink"
    /\ UNCHANGED <<stack, headers, trace, result, err, logged, streamVars, files,
                   before, runVars>>

\* shutil.move removes tmp_file, return file_name.
download_move_unlink ==
    /\ pc = "unlink"
    /\ fs' = Unlink(fs, files.tmp_file)
    /\ download_return
    /\ UNCHANGED <<stack, headers, trace, err, logged, streamVars, files, before, runVars>>

\* The failure of the move passed over: destination returned all the same.
task_move_failure_ignored ==
    /\ pc = "taskmove"
    /\ fs' = IF fs[files.file_name].exists
             THEN Move(fs, files.file_name, files.dest)
             ELSE fs
    /\ pc' = "done"
    /\ result' = PathValue(files.dest)
    /\ UNCHANGED err
    /\ UNCHANGED <<stack, headers, trace, logged, streamVars, files, before, runVars>>

\* download_task after download: shutil.move(tar_download, destination);
\* when it raises (no such file), bot.exit.
task_move ==
    /\ pc = "taskmove"
    /\ IF fs[files.file_name].exists
       THEN /\ fs' = Move(fs, files.file_name, files.dest)
            /\ pc' = "done"
            /\ result' = PathValue(files.dest)
            /\ UNCHANGED err
       ELSE /\ exit("Cannot untar layer, was there a problem with download?", 0)
            /\ UNCHANGED <<fs, result>>
    /\ UNCHANGED <<stack, headers, trace, logged, streamVars, files, before, runVars>>

\* ------------------------------------------------------------- behaviour

Next ==
    \/ \E func \in {"GET", "POST"}, h \in CallerHeaders, j, r \in BOOLEAN : call(func, h, j, r)
    \/ \E h \in CallerHeaders, j \in BOOLEAN : get(h, j)
    \/ \E h \in CallerHeaders, j \in BOOLEAN : post(h, j)
    \/ \E h \in CallerHeaders, d \in Dests, r \in BOOLEAN : stream(h, d, r)
    \/ \E h \in CallerHeaders, d \in Dests : download(h, d)
    \/ \E h \in CallerHeaders, d \in Dests : download_task(h, d)
    \/ \E h \in CallerHeaders : caller_request(h)
    \/ \E st \in Statuses, ch \in Challenges : update_token_called(st, ch)
    \/ \E st \in Statuses : call_server_error(st)
    \/ \E ch \in Challenges : call_unauthorized(ch)
    \/ \E body \in JsonBodies, t \in Tokens \cup {NoValue} : call_ok(body, t)
    \/ \E st \in Statuses : call_other(st)
    \/ \E ch \in Challenges : stream_unauthorized(ch)
    \/ \E len \in BodyLens, l \in BOOLEAN, size \in BufferSizes : stream_ok(len, l, size)
    \/ \E n \in ChunkLens(sbody.len - written, BagCardinality(chunks)) : stream_chunk(n)
    \/ stream_end
    \/ \E st \in Statuses : stream_failed(st)
    \/ network_error
    \/ \E st \in Statuses : head_accepted(st)
    \/ \E st \in Statuses : head_rejected(st)
    \/ download_move
    \/ download_move_apart
    \/ download_move_copy
    \/ download_move_unlink
    \/ task_move

Spec == Init /\ [][Next]_vars

TypeOK ==
    /\ pc \in {"idle", "head", "request", "chunks", "move", "copy", "unlink", "taskmove",
              "done", "exit", "crash"}
    /\ buffered <= written
    /\ buffer_size \in BufferSizes \cup {0}
    /\ buffered <= buffer_size
    /\ run \in 0..MaxRuns
    /\ Len(stack) <= MaxDepth + 1
    /\ written <= sbody.len

\* ------------------------------------------------------------- the challenge
\* The text of a Www-Authenticate header is a sequence of pieces: the
\* keywords and punctuation the pattern names (Bearer, a blank, realm=,
\* service=, scope=, the double quote, the comma), and pieces of other text
\* that hold none of them.
Blank == " "
Quote == "\""
Comma == ","

Blanks(k) == [i \in 1..k |-> Blank]

\* Values as registries send them.
Realms == {<<"https://auth.example.com/token">>, <<"https://quay.io", "/v2/auth">>}
Services == {<<"registry.example.com">>, <<"quay.io">>}
\* The scope value, as its comma-delimited segments.
ScopeLists ==
    {<<"repository:library/ubuntu:pull">>,
     <<"repository:library/ubuntu:pull", "push">>,
     <<"repository:library/ubuntu:pull", "push", "delete">>}
\* What follows the scope parameter.
Trailers ==
    {<<>>,
     <<Comma>>,
     <<Comma, "error=", Quote, "invalid_token", Quote>>,
     <<Comma, "error=", Quote, "invalid_token", Quote,
       Comma, "error_description=", Quote, "expired", Quote>>}

RECURSIVE JoinSegments(_)
\* ",".join(segs)
JoinSegments(segs) ==
    IF Len(segs) = 1 THEN <<segs[1]>>
    ELSE <<segs[1], Comma>> \o JoinSegments(Tail(segs))

\* scheme, k blanks, realm="R",service="S",scope="A,B,..." and the trailer.
ChallengeText(scheme, k, R, S, segs, trailer) ==
    <<scheme>> \o Blanks(k) \o <<"realm=", Quote>> \o R
    \o <<Quote, Comma, "service=", Quote>> \o S
    \o <<Quote, Comma, "scope=", Quote>> \o JoinSegments(segs)
    \o <<Quote>> \o trailer

\* The header texts update_token is tried on.
ChallengeTexts ==
    {ChallengeText(scheme, k, R, S, segs, t) :
        scheme \in {"Bearer", "Basic"}, k \in {0, 1, 2}, R \in Realms,
        S \in Services, segs \in ScopeLists, t \in Trailers}

\* The pieces of lit are in c from position i on.
IsAt(c, lit, i) ==
    /\ i + Len(lit) - 1 <= Len(c)
    /\ \A j \in 1..Len(lit) : c[i + j - 1] = lit[j]

\* \s+ : the blanks from position 2 on, all of them (what follows in the
\* pattern is no blank).
BlanksAfterScheme(c) ==
    CHOOSE k \in 0..Len(c) :
        /\ \A j \in 2..(k + 1) : j <= Len(c) /\ c[j] = Blank
        /\ ~(k + 2 <= Len(c) /\ c[k + 2] = Blank)

\* regexp = '^Bearer\s+realm="(.+)",service="(.+)",scope="(.+)",?'
\* Every way the pattern matches c from its start: <<a, e1, e2, e3>> where
\* group 1 is c[a..e1], group 2 is c[e1+5..e2] and group 3 is c[e2+5..e3],
\* each of one piece at least (.+ takes any piece).  The closing ,? takes a
\* comma or nothing and decides nothing.
regexp(c) ==
    IF Len(c) = 0 \/ c[1] # "Bearer" \/ BlanksAfterScheme(c) = 0
       \/ ~IsAt(c, <<"realm=", Quote>>, 2 + BlanksAfterScheme(c))
    THEN {}
    ELSE LET a == 4 + BlanksAfterScheme(c) IN
         {m \in {a} \X (a..Len(c)) \X (a..Len(c)) \X (a..Len(c)) :
             /\ IsAt(c, <<Quote, Comma, "service=", Quote>>, m[2] + 1)
             /\ m[3] >= m[2] + 5
             /\ IsAt(c, <<Quote, Comma, "scope=", Quote>>, m[3] + 1)
             /\ m[4] >= m[3] + 5
             /\ IsAt(c, <<Quote>>, m[4] + 1)}

\* .+ is greedy: of the ways to match, re.match takes the one whose group 1
\* is longest, then group 2, then group 3.
Longer(m, n) ==
    \/ m[2] > n[2]
    \/ m[2] = n[2] /\ m[3] > n[3]
    \/ m[2] = n[2] /\ m[3] = n[3] /\ m[4] >= n[4]

\* match = re.match(regexp, challenge)
match(c) == CHOOSE m \in regexp(c) : \A n \in regexp(c) : Longer(m, n)

\* s.split(',')[0]: what is before the first comma.
split_first(s) ==
    IF \E i \in 1..Len(s) : s[i] = Comma
    THEN SubSeq(s, 1, (CHOOSE i \in 1..Len(s) :
                          /\ s[i] = Comma
                          /\ \A j \in 1..(i - 1) : s[j] # Comma) - 1)
    ELSE s

\* token_url = realm + '?service=' + service + '&expires_in=900&scope=' + scope
token_url(realm, service, scope) ==
    realm \o <<"?service=">> \o service \o <<"&expires_in=900&scope=">> \o scope

\* update_token from the header text to token_url.
ParseChallenge(c) ==
    IF regexp(c) = {}
    THEN [NotParsed EXCEPT !.done = TRUE]
    ELSE LET m == match(c)
             realm == SubSeq(c, m[1], m[2])
             service == SubSeq(c, m[2] + 5, m[3])
             scope == split_first(SubSeq(c, m[3] + 5, m[4]))
         IN  [matched |-> TRUE, done |-> TRUE, realm |-> realm, service |-> service,
              scope |-> scope, token_url |-> token_url(realm, service, scope)]

\* update_token is handed a response whose Www-Authenticate is challenge.
parse_challenge ==
    /\ ~parsed.done
    /\ parsed' = ParseChallenge(challenge)
    /\ UNCHANGED <<pc, stack, headers, trace, result, err, logged>>
    /\ UNCHANGED <<streamVars, fileVars, op, run, prev, challenge, workerVars>>

InitParse ==
    /\ InitProgram
    /\ challenge \in ChallengeTexts
    /\ parsed = NotParsed
    /\ workers = <<>>
    /\ heap = <<>>

NextParse == parse_challenge

\* update_token's reading of the challenge, on every header text.
SpecParse == InitParse /\ [][NextParse]_vars

\* ------------------------------------------------------------- workers
\* download_task run by two workers at once (threads of one process, or
\* processes), each on its own destination.  A step is what a worker does
\* between two things the other can see: a file operation, a request, a
\* write to a header mapping.
Procs == {"w1", "w2"}
DestOf(w) == IF w = "w1" THEN "/cache/layer1" ELSE "layer2"
\* The body the url of w serves, and the token its token endpoint issues.
BodyOf(w) == IF w = "w1" THEN 1 ELSE 2
TokenOf(w) == IF w = "w1" THEN "abc123" ELSE "t2"

\* The header mappings the caller made; 0 stands for headers=None.
HeapIds == {1, 2}
Refs == {0} \cup HeapIds

\* The mappings handed to the workers: none, one each, or one for both.  The
\* mappings are numbered in the order of the workers handed them.
WorkerRefs ==
    {r \in [Procs -> Refs] : r["w1"] # 2 /\ (r["w2"] = 2 => r["w1"] = 1)}

\* The body each worker is served: one chunk and a byte.
WorkerLens == {chunk_size + 1}

\* The headers argument of w as it is now.
HeadersSeen(w) == IF workers[w].ref = 0 THEN NoneHeaders ELSE heap[workers[w].ref]

\* A worker about to call download_task with the mapping ref.  sent is the
\* headers its request in flight was sent with, alone the mapping as it
\* would be had w run with no other worker about; count is the number of
\* chunks written and size the size of its writer's buffer.
NewWorker(w, ref, mappings) ==
    [pc |-> "idle", ref |-> ref, retry |-> TRUE, len |-> 0, written |-> 0,
     buffered |-> 0, size |-> 0, count |-> 0, files |-> NoFiles,
     sent |-> NoneHeaders,
     alone |-> IF ref = 0 THEN NoneHeaders ELSE mappings[ref]]

InitWorkers ==
    /\ InitProgram
    /\ challenge = <<>>
    /\ parsed = NotParsed
    /\ heap = [i \in HeapIds |-> Mapping("Basic old", "application/json")]
    /\ workers \in {[w \in Procs |-> NewWorker(w, r[w], heap)] : r \in WorkerRefs}

\* Every step of a worker leaves the single program's variables alone.
WorkerFrame ==
    UNCHANGED <<pc, op, stack, headers, trace, result, err, logged, sbody, chunks,
                written, buffered, buffer_size, progress, reports, files, before,
                run, prev, parseVars>>

\* download_task up to the HEAD request: the temporary file is made.
worker_download_task(w) ==
    /\ workers[w].pc = "idle"
    /\ LET f == TaskFiles(DestOf(w), 1, 1) IN
          /\ workers' = [workers EXCEPT ![w].pc = "head", ![w].files = f]
          /\ fs' = Mkstemp(fs, f.tmp_file)
    /\ UNCHANGED heap
    /\ WorkerFrame

\* The HEAD request answered: stream is called and logs its line, or
\* bot.error and back to download_task.
worker_head(w, st) ==
    /\ workers[w].pc = "head"
    /\ workers' = [workers EXCEPT ![w].pc = IF HeadAccepted(st) THEN "stream"
                                            ELSE "taskmove"]
    /\ UNCHANGED <<fs, heap>>
    /\ WorkerFrame

\* stream, past bot.debug, sends the GET with the headers as they are now.
worker_stream(w) ==
    /\ workers[w].pc = "stream"
    /\ workers' = [workers EXCEPT ![w].pc = "request", ![w].sent = HeadersSeen(w)]
    /\ UNCHANGED <<fs, heap>>
    /\ WorkerFrame

\* The GET request in flight is answered: 200 opens the file, whose writer
\* has a buffer of size bytes; 401 with the retry unspent runs update_token
\* up to the token request, sent without headers; anything else is bot.exit.
worker_get(w, st, ch, len, size) ==
    /\ workers[w].pc = "request"
    /\ IF st = 200
       THEN /\ workers' = [workers EXCEPT ![w].pc = "chunks", ![w].len = len,
                                          ![w].written = 0, ![w].buffered = 0,
                                          ![w].size = size, ![w].count = 0]
            /\ fs' = Open(fs, workers[w].files.stream_to)
       ELSE /\ workers' = [workers EXCEPT ![w].pc =
                    IF /\ StreamRetries(workers[w], st)
                       /\ ~AuthenticationError(st, ch)
                       /\ ch = "bearer"
                    THEN "token" ELSE "exit"]
            /\ UNCHANGED fs
    /\ UNCHANGED heap
    /\ WorkerFrame

\* The token request answered with val: headers.update on the mapping w
\* was handed, update_token returns and stream is called again with
\* retry=False and logs its line; or bot.exit.
worker_token(w, val) ==
    /\ workers[w].pc = "token"
    /\ IF TokenAccepted(val, [hasHdr |-> workers[w].ref # 0])
       THEN /\ heap' = [heap EXCEPT ![workers[w].ref] = SetAuthorization(@, val.token)]
            /\ workers' = [workers EXCEPT
                   ![w].pc = "stream",
                   ![w].retry = FALSE,
                   ![w].alone = SetAuthorization(@, val.token)]
       ELSE /\ workers' = [workers EXCEPT ![w].pc = "exit"]
            /\ UNCHANGED heap
    /\ UNCHANGED fs
    /\ WorkerFrame

\* A chunk of n bytes written.
worker_chunk(w, n) ==
    /\ workers[w].pc = "chunks"
    /\ n \in ChunkLens(workers[w].len - workers[w].written, workers[w].count)
    /\ fs' = Write(fs, workers[w].files.stream_to, BodyOf(w),
                   workers[w].written - workers[w].buffered,
                   Flushed(workers[w].size, workers[w].buffered, n))
    /\ workers' = [workers EXCEPT ![w].written = @ + n,
                                  ![w].buffered = Pending(workers[w].size, @, n),
                                  ![w].count = @ + 1]
    /\ UNCHANGED heap
    /\ WorkerFrame

\* The body is exhausted: the file is closed and stream returns.
worker_stream_end(w) ==
    /\ workers[w].pc = "chunks"
    /\ workers[w].written = workers[w].len
    /\ fs' = Close(fs, workers[w].files.stream_to, BodyOf(w),
                   workers[w].written - workers[w].buffered, workers[w].buffered)
    /\ workers' = [workers EXCEPT ![w].pc = "move", ![w].buffered = 0, ![w].size = 0]
    /\ UNCHANGED heap
    /\ WorkerFrame

\* download moves the temporary file to file_name by a rename.
worker_download_move(w) ==
    /\ workers[w].pc = "move"
    /\ fs' = Move(fs, workers[w].files.tmp_file, workers[w].files.file_name)
    /\ workers' = [workers EXCEPT ![w].pc = "taskmove"]
    /\ UNCHANGED heap
    /\ WorkerFrame

\* download moves the temporary file to file_name by a copy: file_name is
\* opened, filled, and the temporary file removed.
worker_download_move_apart(w) ==
    /\ workers[w].pc = "move"
    /\ MayBeApart(workers[w].files.tmp_file, workers[w].files.file_name)
    /\ fs' = CopyOpen(fs, workers[w].files.tmp_file, workers[w].files.file_name)
    /\ workers' = [workers EXCEPT ![w].pc = "copy"]
    /\ UNCHANGED heap
    /\ WorkerFrame

worker_download_move_copy(w) ==
    /\ workers[w].pc = "copy"
    /\ fs' = CopyData(fs, workers[w].files.tmp_file, workers[w].files.file_name)
    /\ workers' = [workers EXCEPT ![w].pc = "unlink"]
    /\ UNCHANGED heap
    /\ WorkerFrame

worker_download_move_unlink(w) ==
    /\ workers[w].pc = "unlink"
    /\ fs' = Unlink(fs, workers[w].files.tmp_file)
    /\ workers' = [workers EXCEPT ![w].pc = "taskmove"]
    /\ UNCHANGED heap
    /\ WorkerFrame

\* download_task moves file_name to destination, or exits.
worker_task_move(w) ==
    /\ workers[w].pc = "taskmove"
    /\ IF fs[workers[w].files.file_name].exists
       THEN /\ fs' = Move(fs, workers[w].files.file_name, workers[w].files.dest)
            /\ workers' = [workers EXCEPT ![w].pc = "done"]
       ELSE /\ workers' = [workers EXCEPT ![w].pc = "exit"]
            /\ UNCHANGED fs
    /\ UNCHANGED heap
    /\ WorkerFrame

\* requests raises in w: nothing catches it.  In the loop over the chunks
\* the file is closed on the way out.
worker_network_error(w) ==
    /\ workers[w].pc \in {"head", "request", "token", "chunks"}
    /\ workers' = [workers EXCEPT ![w].pc = "crash", ![w].buffered = 0, ![w].size = 0]
    /\ fs' = IF workers[w].pc = "chunks"
             THEN Close(fs, workers[w].files.stream_to, BodyOf(w),
                        workers[w].written - workers[w].buffered, workers[w].buffered)
             ELSE fs
    /\ UNCHANGED heap
    /\ WorkerFrame

NextWorkers ==
    \/ \E w \in Procs : worker_download_task(w)
    \/ \E w \in Procs, st \in Statuses : worker_head(w, st)
    \/ \E w \in Procs : worker_stream(w)
    \/ \E w \in Procs, st \in Statuses, ch \in Challenges, len \in WorkerLens,
          size \in BufferSizes :
          worker_get(w, st, ch, len, size)
    \/ \E w \in Procs :
          \E val \in {JsonValue("token", TokenOf(w)), RawResponse(404)} :
             worker_token(w, val)
    \/ \E w \in Procs :
          \E n \in ChunkLens(workers[w].len - workers[w].written, workers[w].count) :
             worker_chunk(w, n)
    \/ \E w \in Procs : worker_stream_end(w)
    \/ \E w \in Procs : worker_download_move(w)
    \/ \E w \in Procs : worker_download_move_apart(w)
    \/ \E w \in Procs : worker_download_move_copy(w)
    \/ \E w \in Procs : worker_download_move_unlink(w)
    \/ \E w \in Procs : worker_task_move(w)
    \/ \E w \in Procs : worker_network_error(w)

\* download_task in two workers, every interleaving of their steps.
SpecWorkers == InitWorkers /\ [][NextWorkers]_vars

\* ------------------------------------------------------------- properties
\* Positions in the trace of the requests sent to target k (the HEAD request
\* of download aside), and of the invocations of update_token on a response
\* of target k.
RequestsAt(k) ==
    {i \in 1..Len(trace) :
        trace[i].ev = "request" /\ trace[i].target = k /\ trace[i].method # "HEAD"}
InvocationsAt(k) ==
    {i \in 1..Len(trace) : trace[i].ev = "update_token" /\ trace[i].target = k}
First(S) == CHOOSE i \in S : \A j \in S : i <= j
Last(S) == CHOOSE i \in S : \A j \in S : j <= i

\* The operation returned or ended in bot.exit.
Terminated == pc \in {"done", "exit"}

\* The first request to target k was sent by a frame of function fn with
\* retry=True and answered 401.
FirstUnauthorized(fn, k) ==
    /\ RequestsAt(k) # {}
    /\ trace[First(RequestsAt(k))].by = fn
    /\ trace[First(RequestsAt(k))].retry
    /\ trace[First(RequestsAt(k))].status = 401

\* The frame of target k is still on the stack with its retry flag unspent:
\* the program ended inside the update_token that frame invoked.
EndedInUpdateToken(k) ==
    /\ pc = "exit"
    /\ Len(stack) > k
    /\ stack[k + 1].retry

\* C1 as stated: whenever call with retry=True gets 401 first, the request is
\* re-issued exactly once, with retry=False, after one invocation of
\* update_token; a second 401 ends in the credentials-expired exit.
C1_ReissuedExactlyOnce ==
    \A k \in Targets :
        (FirstUnauthorized("call", k) /\ Terminated) =>
            /\ Cardinality(RequestsAt(k)) = 2
            /\ Cardinality(InvocationsAt(k)) = 1
            /\ ~trace[Last(RequestsAt(k))].retry
            /\ First(InvocationsAt(k)) < Last(RequestsAt(k))
            /\ trace[Last(RequestsAt(k))].status = 401 =>
                  (pc = "exit" /\ err.msg = "Your credentials are expired!")

\* C1 amended: when call with retry=True gets 401 first, update_token is
\* invoked exactly once for that request; the request is re-issued at most
\* once, with retry=False and after that invocation; it is re-issued when
\* update_token returns and is not when update_token ends fatally; a 401 to
\* the re-issued request ends call with the credentials-expired exit, with
\* no further invocation of update_token and no third request.
C1_ReissuedOnceIfTokenUpdated ==
    \A k \in Targets :
        FirstUnauthorized("call", k) =>
            /\ Cardinality(InvocationsAt(k)) = 1
            /\ Cardinality(RequestsAt(k)) <= 2
            /\ Cardinality(RequestsAt(k)) = 2 =>
                  /\ ~trace[Last(RequestsAt(k))].retry
                  /\ First(InvocationsAt(k)) < Last(RequestsAt(k))
                  /\ trace[Last(RequestsAt(k))].status = 401 =>
                        /\ pc = "exit"
                        /\ err.msg = "Your credentials are expired!"
                        /\ Last(RequestsAt(k)) = Len(trace)
            /\ (Terminated /\ Cardinality(RequestsAt(k)) = 1) => EndedInUpdateToken(k)
            /\ (Terminated /\ EndedInUpdateToken(k)) => Cardinality(RequestsAt(k)) = 1

\* C1 witness: the re-issued request of a call was answered 401 too.
C1_Witness ==
    /\ op \in {"call", "get", "post"}
    /\ FirstUnauthorized("call", 0)
    /\ Cardinality(RequestsAt(0)) = 2
    /\ trace[Last(RequestsAt(0))].status = 401
    /\ pc = "exit"

\* C2 as stated: through get, post or call with retry allowed, with or without
\* a header mapping, a first 401 with a well-formed Bearer challenge followed
\* by a token endpoint answer 200 {"token": t} leads to the request being
\* re-issued with Authorization: Bearer t.
C2_TokenAnswered ==
    /\ op \in {"call", "get", "post"}
    /\ Len(trace) >= 3
    /\ trace[1].ev = "request" /\ trace[1].target = 0 /\ trace[1].retry
    /\ trace[1].status = 401 /\ trace[1].challenge = "bearer"
    /\ trace[3].ev = "request" /\ trace[3].target = 1
    /\ trace[3].status = 200 /\ trace[3].body = "token"

C2_ReissuedWithBearer ==
    (C2_TokenAnswered /\ pc # "crash") =>
        IF Len(trace) = 3
        THEN /\ pc = "request"
             /\ Len(stack) = 1
             /\ ~Top.retry
             /\ ~HeadersOf(Top).none
             /\ HeadersOf(Top).map["Authorization"] = "Bearer " \o trace[3].token
        ELSE /\ trace[4].ev = "request"
             /\ trace[4].target = 0
             /\ ~trace[4].hdr.none
             /\ trace[4].hdr.map["Authorization"] = "Bearer " \o trace[3].token

\* C3: a response 500, 502 or 404 to call, on the first or the re-issued
\* attempt, ends call at once in bot.exit: it is the last event of the trace
\* (no update_token, no token request, no re-issue).
C3_ServerErrorIsFatalAtOnce ==
    \A i \in 1..Len(trace) :
        (trace[i].ev = "request" /\ trace[i].by = "call"
            /\ trace[i].status \in {500, 502, 404}) =>
            /\ i = Len(trace)
            /\ pc = "exit"
            /\ err = Err("Beep boop!", trace[i].status)

\* C3 witness: the re-issued request of a call was answered 404.
C3_Witness ==
    /\ Len(trace) >= 4
    /\ trace[Len(trace)].by = "call"
    /\ trace[Len(trace)].target = 0
    /\ ~trace[Len(trace)].retry
    /\ trace[Len(trace)].status = 404
    /\ pc = "exit"

\* The body of the 200 response, whole.
StreamedBody == Prefix(sbody.body, sbody.len)

\* stream returned: the last request is the GET answered 200 and the program
\* is past the loop over the chunks.
StreamReturned ==
    /\ pc \in {"move", "copy", "unlink", "taskmove", "done"}
    /\ trace # <<>>
    /\ trace[Len(trace)].by = "stream"
    /\ trace[Len(trace)].status = 200

\* C4: after download succeeded (stream returned and download returned) no
\* file is at its temporary path and file_name holds the streamed body; after
\* download_task returned neither temporary path holds a file and destination
\* holds the streamed body.
C4_DownloadPlacesFile ==
    /\ (op = "download" /\ pc = "done" /\ trace[1].status \in {200, 401}) =>
          /\ StreamReturned
          /\ ~fs[files.tmp_file].exists
          /\ fs[files.file_name] = StreamedBody
    /\ (op = "download_task" /\ pc = "taskmove" /\ trace[1].status \in {200, 401}) =>
          /\ StreamReturned
          /\ ~fs[files.tmp_file].exists
          /\ fs[files.file_name] = StreamedBody
    /\ (op = "download_task" /\ pc = "done") =>
          /\ StreamReturned
          /\ ~fs[files.tmp_file].exists
          /\ ~fs[files.file_name].exists
          /\ fs[files.dest] = StreamedBody

\* C4 witness: download_task returned after a body of more than one chunk.
C4_Witness ==
    /\ op = "download_task"
    /\ pc = "done"
    /\ sbody.len > chunk_size
    /\ fs[files.dest].len = sbody.len

\* The path the operation is to leave the file at.
FinalPath == IF op = "download_task" THEN files.dest ELSE files.file_name

\* C5: at every point of a download or download_task run, crashed and exited
\* runs included, the final path holds what it held before the run or the
\* whole streamed body, never an empty or partly written file in between.
C5_AtomicPlacement ==
    op \in {"download", "download_task"} =>
        \/ fs[FinalPath] = before
        \/ /\ StreamReturned
           /\ fs[FinalPath] = StreamedBody

\* C6: in download the HEAD request is the first request; when it answers
\* neither 200 nor 401, download reports the error, sends no GET, and returns
\* file_name instead of exiting.
C6_HeadRejectedReportsOnly ==
    (op \in {"download", "download_task"} /\ trace # <<>>) =>
        /\ trace[1].method = "HEAD"
        /\ trace[1].status \notin {200, 401} =>
              /\ Len(trace) = 1
              /\ logged = <<"Invalid url or permissions">>
              /\ stack = <<>>
              /\ sbody = NoBody
              /\ op = "download" => (pc = "done" /\ result = PathValue(files.file_name))
              /\ op = "download_task" =>
                    /\ pc \in {"taskmove", "exit"}
                    /\ pc = "exit" =>
                          err.msg = "Cannot untar layer, was there a problem with download?"

\* C6 witness: download returned after HEAD answered 403.
C6_Witness ==
    /\ op = "download"
    /\ pc = "done"
    /\ trace[1].status = 403

\* C7 as stated: whenever stream with retry=True gets 401 first, update_token
\* is invoked once and the GET is re-issued exactly once with retry=False; a
\* re-issued GET not answered 200 ends in the stream-failed exit reporting
\* that status.
C7_StreamReissuedExactlyOnce ==
    (FirstUnauthorized("stream", 0) /\ Terminated) =>
        /\ Cardinality(InvocationsAt(0)) = 1
        /\ Cardinality(RequestsAt(0)) = 2
        /\ ~trace[Last(RequestsAt(0))].retry
        /\ trace[Last(RequestsAt(0))].status # 200 =>
              /\ pc = "exit"
              /\ err = Err("Problem with stream, response", trace[Last(RequestsAt(0))].status)

\* C7 amended: when stream with retry=True gets 401 first, update_token is
\* invoked exactly once; the GET is re-issued at most once, with retry=False:
\* it is re-issued when update_token returns and is not when update_token
\* ends fatally; a re-issued GET not answered 200 (a second 401 included) ends
\* stream in the stream-failed exit reporting that status, with no further
\* invocation of update_token and no third GET.
C7_StreamReissuedOnceIfTokenUpdated ==
    FirstUnauthorized("stream", 0) =>
        /\ Cardinality(InvocationsAt(0)) = 1
        /\ Cardinality(RequestsAt(0)) <= 2
        /\ Cardinality(RequestsAt(0)) = 2 =>
              /\ ~trace[Last(RequestsAt(0))].retry
              /\ First(InvocationsAt(0)) < Last(RequestsAt(0))
              /\ trace[Last(RequestsAt(0))].status # 200 =>
                    /\ pc = "exit"
                    /\ err = Err("Problem with stream, response",
                                 trace[Last(RequestsAt(0))].status)
                    /\ Last(RequestsAt(0)) = Len(trace)
        /\ (Terminated /\ Cardinality(RequestsAt(0)) = 1) => EndedInUpdateToken(0)
        /\ (Terminated /\ EndedInUpdateToken(0)) => Cardinality(RequestsAt(0)) = 1

\* C7 witness: the re-issued GET of a stream was answered 401 too.
C7_Witness ==
    /\ FirstUnauthorized("stream", 0)
    /\ Cardinality(RequestsAt(0)) = 2
    /\ trace[Last(RequestsAt(0))].status = 401
    /\ pc = "exit"
    /\ err.status = 401

\* stream read a 200 response of n whole chunks with Content-Length n * 1 MiB
\* to its end.
WholeChunksStreamed ==
    /\ StreamReturned
    /\ sbody.hasLength
    /\ sbody.len % chunk_size = 0
    /\ \A n \in BagToSet(chunks) : n = chunk_size

\* C8 as stated: for a body of n whole chunks with Content-Length n * 1 MiB the
\* progress reporter is invoked exactly n times, with strictly increasing
\* counts, the last of which is Content-Length.
C8_ReportedOncePerChunk ==
    (WholeChunksStreamed /\ BagCardinality(chunks) >= 1) =>
        /\ Len(reports) = sbody.len \div chunk_size
        /\ \A i \in 1..(Len(reports) - 1) : reports[i] < reports[i + 1]
        /\ reports[Len(reports)] = sbody.len

\* C8 amended: the reporter is invoked exactly n + 1 times: once with 0 before
\* the first chunk is read, then once after each chunk with the bytes so far;
\* the counts 0, 1 MiB, ..., n MiB increase strictly and the last one is
\* Content-Length.
C8_ReportedAtStartAndPerChunk ==
    WholeChunksStreamed =>
        /\ Len(reports) = (sbody.len \div chunk_size) + 1
        /\ \A i \in 1..Len(reports) : reports[i] = (i - 1) * chunk_size
        /\ \A i \in 1..(Len(reports) - 1) : reports[i] < reports[i + 1]
        /\ reports[Len(reports)] = sbody.len

\* C8 witness: a body of MaxChunks whole chunks was streamed to its end.
C8_Witness ==
    /\ WholeChunksStreamed
    /\ sbody.len = MaxChunks * chunk_size
    /\ BagCardinality(chunks) = MaxChunks

\* C9 as stated: the token is fetched with one GET without headers; when that
\* request is answered with a status other than 200, or with JSON lacking the
\* key token, update_token ends fatally, no further request is sent and the
\* header mapping is as it was.  (The message of the exit is left open here:
\* the claim names the token-fetch error.)
C9_TokenFetchFailsAtOnce ==
    \A i \in 1..Len(trace) :
        (trace[i].ev = "request" /\ trace[i].target = 1) =>
            /\ trace[i].method = "GET"
            /\ trace[i].hdr.none
            /\ (trace[i].status # 200 \/ trace[i].body = "notoken") =>
                  /\ pc = "exit"
                  /\ \A j \in (i + 1)..Len(trace) : trace[j].ev # "request"
                  /\ headers = trace[First(InvocationsAt(0))].hdr

\* The run is download_task again, on the destination of the run before,
\* which returned.
RunAgain ==
    /\ op = "download_task"
    /\ prev.op = "download_task"
    /\ prev.ok
    /\ prev.files.dest = files.dest

\* C10: download_task run again on the same destination after it returned:
\* once stream returned, the moves succeed (it fails only as a first run
\* would: HEAD rejected, or an exit before stream returns); when it returns,
\* destination holds the body of this run only, and no temporary path of
\* either run holds a file.
C10_RunAgainReplaces ==
    RunAgain =>
        /\ (pc = "taskmove" /\ StreamReturned) => fs[files.file_name].exists
        /\ (pc = "exit" /\ err.msg = "Cannot untar layer, was there a problem with download?") =>
              (Len(trace) = 1 /\ trace[1].status \notin {200, 401})
        /\ pc = "done" =>
              /\ sbody.body = run
              /\ fs[files.dest] = StreamedBody
              /\ ~fs[files.tmp_file].exists
              /\ ~fs[files.file_name].exists
              /\ ~fs[prev.files.tmp_file].exists
              /\ ~fs[prev.files.file_name].exists

\* C10 witness: the second run returned, over the body the first run left.
C10_Witness ==
    /\ RunAgain
    /\ pc = "done"
    /\ before.exists
    /\ before.body = run - 1
    /\ before.len > 0
    /\ sbody.len > 0
    /\ fs[files.dest].body = run

\* C12: a response of call whose status is none of 200, 401, 404, 500 and 502
\* is returned to the caller as the raw response: the request is the last
\* thing call did (no update_token, no second request), no bot.exit of call
\* ends the process and the body is not parsed, return_json or not.  The
\* caller is the operation's (target 0), or the update_token that asked for
\* a token, which finds no token in a raw response and exits.
C12_OtherStatusReturnedRaw ==
    \A i \in 1..Len(trace) :
        (/\ trace[i].ev = "request"
         /\ trace[i].by = "call"
         /\ trace[i].status \notin {200, 401, 404, 500, 502})
        => /\ i = Len(trace)
           /\ logged = <<>>
           /\ trace[i].target = 0
                => /\ pc = "done"
                   /\ err = NoErr
                   /\ result.kind = "response"
                   /\ result.status = trace[i].status
           /\ trace[i].target > 0
                => /\ pc = "exit"
                   /\ err = Err("Error getting token.", trace[i].status)
                   /\ result = NoValueReturned

\* A POST with return_json=True answered 403 has returned the response.
C12_Witness ==
    /\ op = "call"
    /\ pc = "done"
    /\ Len(trace) = 1
    /\ trace[1].method = "POST"
    /\ trace[1].json
    /\ trace[1].status = 403
    /\ result.kind = "response"

\* C14: an invocation of call, get, post or stream sends at most two requests
\* to the requested URL and at most one request to a token endpoint, whatever
\* the servers answer.
C14_AtMostTwoRequestsOneTokenRequest ==
    op \in {"call", "get", "post", "stream"}
    => /\ Cardinality(RequestsAt(0)) <= 2
       /\ Cardinality({i \in 1..Len(trace) :
                          trace[i].ev = "request" /\ trace[i].target >= 1}) <= 1

\* C15: with a Content-Length, the value reported after each chunk is the
\* number of bytes written so far and is never above the Content-Length,
\* for every body length.
C15_ReportedBytesWritten ==
    (sbody.hasLength /\ BagCardinality(chunks) >= 1)
    => /\ Len(reports) = BagCardinality(chunks) + 1
       /\ reports[Len(reports)] = written
       /\ reports[Len(reports)] <= sbody.len

\* download has returned to its caller: to the caller of the operation, or
\* into download_task (which then moved the file, or failed to).
DownloadReturned ==
    \/ op = "download" /\ pc = "done"
    \/ /\ op = "download_task"
       /\ \/ pc \in {"taskmove", "done"}
          \/ /\ pc = "exit"
             /\ err.msg = "Cannot untar layer, was there a problem with download?"

\* C18: when the HEAD request is answered with a status other than 200 and
\* 401, what download returns differs from what a successful download
\* returns, which is file_name.
C18_RejectedHeadReturnsOtherValue ==
    (/\ op = "download"
     /\ pc = "done"
     /\ trace[1].status \notin {200, 401})
    => result # [kind |-> "path", status |-> 0, hasToken |-> FALSE,
                 token |-> NoValue, path |-> files.file_name]

\* C20: whenever download has returned, HEAD accepted or rejected, no file
\* is at the temporary path this download made.
C20_NoTemporaryFileLeft ==
    (op \in {"download", "download_task"} /\ DownloadReturned)
    => ~fs[files.tmp_file].exists

\* C19: download_task has returned destination only when the last request
\* was a GET answered 200, the whole body was written and destination holds
\* it; a value is returned in no other state.  After a rejected HEAD there
\* is no file for the move of download_task, which exits; a GET that is
\* neither answered 200 nor retried, a failed update_token and a failed
\* token request end in bot.exit.
C19_ReturnsOnlyAfterWholeDownload ==
    op = "download_task" =>
        /\ pc = "done" =>
              /\ trace[Len(trace)].by = "stream"
              /\ trace[Len(trace)].method = "GET"
              /\ trace[Len(trace)].status = 200
              /\ written = sbody.len
              /\ fs[files.dest] = Prefix(sbody.body, sbody.len)
              /\ result.path = files.dest
        /\ result.kind # "none" => pc = "done"
        /\ (trace # <<>> /\ trace[1].status \notin {200, 401}) =>
              /\ pc \in {"taskmove", "exit"}
              /\ ~fs[files.file_name].exists
              /\ pc = "exit" =>
                    err.msg = "Cannot untar layer, was there a problem with download?"
        /\ \A i \in 2..Len(trace) :
              /\ (/\ trace[i].ev = "request"
                  /\ trace[i].target = 0
                  /\ trace[i].status # 200
                  /\ ~(trace[i].status = 401 /\ trace[i].retry))
                 => (pc = "exit" /\ err.msg = "Problem with stream, response")
              /\ (/\ trace[i].ev = "update_token"
                  /\ trace[i].challenge # "bearer")
                 => (pc = "exit" /\ i = Len(trace))
              /\ (/\ trace[i].ev = "request"
                  /\ trace[i].target = 1
                  /\ ~(trace[i].status = 401 /\ trace[i].retry)
                  /\ ~(trace[i].status = 200 /\ trace[i].body = "token" /\ ~headers.none))
                 => pc = "exit"

\* C19 witness: after a run that returned destination, a second run whose
\* HEAD was answered 403 has ended in the exit of download_task.
C19_Witness ==
    /\ op = "download_task"
    /\ prev.op = "download_task"
    /\ prev.ok
    /\ pc = "exit"
    /\ trace[1].status = 403
    /\ result = NoValueReturned

\* The header argument as the operation was given it: what the first
\* update_token on a response of the requested URL was handed.
HeadersGiven == trace[First(InvocationsAt(0))].hdr

\* C16: update_token invoked on a response that is not a 401, or has no
\* Www-Authenticate header, or whose challenge does not match the Bearer
\* pattern, is the last thing that happened: the program is in bot.exit with
\* the message of that check, no token request was sent and the header
\* mapping is as it was given.
C16_UnusableChallengeIsFatal ==
    \A i \in 1..Len(trace) :
        (/\ trace[i].ev = "update_token"
         /\ \/ trace[i].status # 401
            \/ trace[i].challenge \in {"absent", "malformed"})
        => /\ i = Len(trace)
           /\ pc = "exit"
           /\ err.msg = IF trace[i].status # 401 \/ trace[i].challenge = "absent"
                        THEN "Authentication error, exiting."
                        ELSE "Unrecognized authentication challenge, exiting."
           /\ \A j \in 1..Len(trace) :
                 ~(trace[j].ev = "request" /\ trace[j].target > trace[i].target)
           /\ headers = HeadersGiven
           /\ result = NoValueReturned

\* C16 witness: update_token was handed a 200 response carrying a Bearer
\* challenge, and a mapping with two entries.
C16_Witness ==
    /\ op = "update_token"
    /\ pc = "exit"
    /\ trace[Len(trace)].ev = "update_token"
    /\ trace[Len(trace)].status = 200
    /\ trace[Len(trace)].challenge = "bearer"
    /\ headers.map["Authorization"] = "Basic old"

\* The token request of the update_token invoked on a response of the
\* requested URL was answered with a token, and the header argument is a
\* mapping: that update_token returned.
TokenUpdated(j) ==
    /\ trace[j].ev = "request"
    /\ trace[j].target = 1
    /\ trace[j].status = 200
    /\ trace[j].body = "token"
    /\ ~headers.none

\* C17: after update_token returned, the mapping it was given holds
\* Authorization: Bearer <token> and every other key holds what it held; a
\* caller that invoked update_token itself has got that mapping back.
C17_OnlyAuthorizationChanged ==
    \A j \in 1..Len(trace) :
        TokenUpdated(j) =>
            /\ ~HeadersGiven.none
            /\ headers.map["Authorization"] = "Bearer " \o trace[j].token
            /\ \A k \in HeaderKeys \ {"Authorization"} :
                  headers.map[k] = HeadersGiven.map[k]
            /\ op = "update_token" =>
                  /\ pc = "done"
                  /\ result.kind = "headers"
                  /\ err = NoErr
                  /\ logged = <<>>

\* C17 witness: a mapping holding Basic credentials and an Accept entry came
\* back with the token in place of the credentials.
C17_Witness ==
    /\ op = "update_token"
    /\ pc = "done"
    /\ HeadersGiven.map["Authorization"] = "Basic old"
    /\ HeadersGiven.map["Accept"] = "application/json"
    /\ headers.map["Authorization"] = "Bearer t2"
    /\ headers.map["Accept"] = "application/json"

\* C13: of a challenge Bearer realm="R",service="S",scope="A,B,...", with or
\* without further comma-separated parameters after it, update_token takes
\* realm R, service S and scope A, the first segment of the scope value and
\* nothing more, and asks for the token at
\* R?service=S&expires_in=900&scope=A.
C13_FirstScopeSegmentExtracted ==
    \A k \in {1, 2}, R \in Realms, S \in Services, segs \in ScopeLists, t \in Trailers :
        (challenge = ChallengeText("Bearer", k, R, S, segs, t) /\ parsed.done)
        => /\ parsed.matched
           /\ parsed.realm = R
           /\ parsed.service = S
           /\ parsed.scope = <<segs[1]>>
           /\ parsed.token_url =
                 R \o <<"?service=">> \o S \o <<"&expires_in=900&scope=">> \o <<segs[1]>>

\* What each worker would find had it run alone: its next request carries
\* the mapping it was handed, changed by its own update_token only; its
\* temporary file holds what it has written; its destination holds what was
\* there before until it holds the whole body, with neither temporary path
\* left.
AsWhenAlone(w) ==
    /\ workers[w].pc = "request" => workers[w].sent = workers[w].alone
    /\ workers[w].pc = "chunks" =>
          fs[workers[w].files.tmp_file] =
             Prefix(BodyOf(w), workers[w].written - workers[w].buffered)
    /\ workers[w].pc = "move" =>
          fs[workers[w].files.tmp_file] = Prefix(BodyOf(w), workers[w].len)
    /\ workers[w].pc = "done" =>
          /\ fs[Path(DestOf(w), 0, 0)] = Prefix(BodyOf(w), workers[w].len)
          /\ ~fs[workers[w].files.tmp_file].exists
          /\ ~fs[workers[w].files.file_name].exists
    /\ workers[w].pc # "done" =>
          fs[Path(DestOf(w), 0, 0)] =
             IF DestOf(w) = "/cache/layer1" THEN OldFile ELSE Absent

\* C11 as stated: download_task invocations running at once on distinct
\* destinations find, each of them and at every interleaving, the header
\* mapping, the temporary file and the destination as when running alone.
C11_NoInterference == \A w \in Procs : AsWhenAlone(w)

\* No two workers were handed the same mapping.
OwnMappings ==
    \A v, w \in Procs : (v # w /\ workers[v].ref = workers[w].ref) => workers[w].ref = 0

\* C11, amended: the same, when no header mapping is handed to two
\* invocations.
C11_NoInterferenceWithOwnMappings == OwnMappings => C11_NoInterference

\* C11 witness: two workers with a mapping each have both refreshed their
\* token and returned.
C11_Witness ==
    /\ workers # <<>>
    /\ workers["w1"].ref = 1
    /\ workers["w2"].ref = 2
    /\ workers["w1"].pc = "done"
    /\ workers["w2"].pc = "done"
    /\ heap[1].map["Authorization"] = "Bearer abc123"
    /\ heap[2].map["Authorization"] = "Bearer t2"
    /\ workers["w2"].len = chunk_size + 1

====
